---- MODULE Spec2Model ----
(***************************************************************************)
(* Model of EstacaoManager (Codificacao_Estacao_Core.py): the station-code *)
(* generator with its per-quadrant session cache, and the .mdb import run  *)
(* that drives it.                                                         *)
(*                                                                         *)
(* Python values are tagged records; text is a sequence of one-character   *)
(* strings, so that formatting, slicing, strip() and upper() are computed  *)
(* and not assumed.  A float is kept as sign, whole part and first decimal *)
(* digit, or as nan / inf.                                                 *)
(***************************************************************************)
EXTENDS Integers, Sequences, FiniteSets, TLC

VARIABLES
    banco,            \* rows of dbo.Estacao in the SQL Server backing store
    codigos_gerados,  \* self.codigos_gerados: prefix text -> list of int codes
    chamadas,         \* number of direct generator calls made in this session
    retorno,          \* what the last call handed to its caller
    emitidos,         \* codes returned by gerar_codigo_pluviometrica, in order
    shapes,           \* self._gdf_subbacia / self._gdf_municipio, once loaded
    pc,               \* "ocioso", "linhas" (inside the row loop), "retornado"
    selecionadas,     \* cursor.fetchall(): the rows selected by the import query
    idx,              \* position of the row loop in selecionadas
    results,          \* the results list of _processar_mdb
    next_registro_id, \* the running registry identifier
    enriquecido,      \* the record _preencher_codigos_geograficos last returned
    descartados,      \* how many cached codes the last cache reset discarded
    colunas_existentes, \* the columns the source table was found to have
    dados,            \* the records handed to exportar_resultados
    df,               \* the DataFrame of the export, a row of cells per record
    destino,          \* the output file of the export
    pos,              \* position of the insert loop in df
    log               \* what the export printed: the names of the rows not inserted

vars == <<banco, codigos_gerados, chamadas, retorno, emitidos, shapes, pc,
          selecionadas, idx, results, next_registro_id, enriquecido, descartados,
          colunas_existentes, dados, df, destino, pos, log>>

varsImportacao == <<shapes, pc, selecionadas, idx, results, next_registro_id,
                    enriquecido, descartados, colunas_existentes>>

varsExportacao == <<dados, df, destino, pos, log>>

----------------------------------------------------------------------------
(* Bounds of the model *)

MaxChamadas == 3
MaxLinhas == 2
MaxRegistros == 2

(* Program constants *)

LimiteSequencial == 999
DeslocamentoNorte == 80
LimiteLatitude == 90
LimiteLongitude == 180
TipoPluviometrica == 2

----------------------------------------------------------------------------
(* Text and number helpers (Python str / int / f-string behaviour) *)

Algarismos == <<"0", "1", "2", "3", "4", "5", "6", "7", "8", "9">>

Abs(n) == IF n < 0 THEN -n ELSE n

Max(S) == CHOOSE m \in S : \A n \in S : n <= m

RECURSIVE Dec(_)
\* str(n) for an int n >= 0
Dec(n) ==
    IF n < 10 THEN <<Algarismos[n + 1]>>
    ELSE Dec(n \div 10) \o <<Algarismos[(n % 10) + 1]>>

RECURSIVE Zeros(_)
Zeros(k) == IF k <= 0 THEN <<>> ELSE <<"0">> \o Zeros(k - 1)

\* the format without its zero padding, f"{n}"
FmtD_SemZeros(n, w) == Dec(n)

\* f"{n:0<w>d}" for n >= 0: pads to w digits, never truncates
FmtD(n, w) == Zeros(w - Len(Dec(n))) \o Dec(n)

ValorAlgarismo(c) == CHOOSE d \in 0..9 : Algarismos[d + 1] = c

RECURSIVE IntDe(_)
\* int(s) for a text of decimal digits
IntDe(s) ==
    IF Len(s) = 0 THEN 0
    ELSE 10 * IntDe(SubSeq(s, 1, Len(s) - 1)) + ValorAlgarismo(s[Len(s)])

SoDigitos(s) == \A i \in DOMAIN s : \E d \in DOMAIN Algarismos : Algarismos[d] = s[i]

\* s[-k:]
Ultimos(s, k) == IF Len(s) <= k THEN s ELSE SubSeq(s, Len(s) - k + 1, Len(s))

----------------------------------------------------------------------------
(* Floats *)

Fin(neg, w, d) == [k |-> "fin", neg |-> neg, w |-> w, d |-> d]
NaN == [k |-> "nan", neg |-> FALSE, w |-> 0, d |-> 0]
Inf(neg) == [k |-> "inf", neg |-> neg, w |-> 0, d |-> 0]

\* x < 0  (false for -0.0 and for nan)
Negativo(x) ==
    \/ x.k = "inf" /\ x.neg
    \/ x.k = "fin" /\ x.neg /\ (x.w > 0 \/ x.d > 0)

\* -lim <= x <= lim  (false for nan and inf)
Entre(x, lim) == x.k = "fin" /\ (x.w < lim \/ (x.w = lim /\ x.d = 0))

\* int(x) for a finite x: truncation towards zero
Trunc(x) == IF x.neg THEN -x.w ELSE x.w

----------------------------------------------------------------------------
(* Python values held in a row of the source table or in a record *)

PyNone == [t |-> "None"]
PyStr(s) == [t |-> "str", s |-> s]
PyInt(n) == [t |-> "int", n |-> n]
PyBool(b) == [t |-> "bool", b |-> b]
PyFloat(x) == [t |-> "float", x |-> x]

Minusculas == <<"a", "b", "c", "d", "e", "f", "g", "h", "i", "j", "k", "l", "m",
                "n", "o", "p", "q", "r", "s", "t", "u", "v", "w", "x", "y", "z", "ã">>
Maiusculas == <<"A", "B", "C", "D", "E", "F", "G", "H", "I", "J", "K", "L", "M",
                "N", "O", "P", "Q", "R", "S", "T", "U", "V", "W", "X", "Y", "Z", "Ã">>
Brancos == {" ", "\t", "\n"}

UpperChar(c) ==
    IF \E i \in DOMAIN Minusculas : Minusculas[i] = c
    THEN Maiusculas[CHOOSE i \in DOMAIN Minusculas : Minusculas[i] = c]
    ELSE c

LowerChar(c) ==
    IF \E i \in DOMAIN Maiusculas : Maiusculas[i] = c
    THEN Minusculas[CHOOSE i \in DOMAIN Maiusculas : Maiusculas[i] = c]
    ELSE c

\* str.upper() and str.lower()
Upper(s) == [i \in DOMAIN s |-> UpperChar(s[i])]
Lower(s) == [i \in DOMAIN s |-> LowerChar(s[i])]

Recorte(s, fora) ==
    IF fora = {} THEN <<>>
    ELSE SubSeq(s, CHOOSE i \in fora : \A j \in fora : i <= j,
                   CHOOSE i \in fora : \A j \in fora : j <= i)

\* str.strip(): s from its first to its last non-blank character
Strip(s) == Recorte(s, {i \in DOMAIN s : s[i] \notin Brancos})

\* str.endswith
EndsWith(s, suf) == Len(s) >= Len(suf) /\ Ultimos(s, Len(suf)) = suf

\* str(x) for a float
StrFloat(x) ==
    CASE x.k = "nan" -> <<"n", "a", "n">>
      [] x.k = "inf" -> (IF x.neg THEN <<"-">> ELSE <<>>) \o <<"i", "n", "f">>
      [] OTHER -> (IF x.neg THEN <<"-">> ELSE <<>>) \o Dec(x.w) \o <<".">> \o <<Algarismos[x.d + 1]>>

\* str(v)
StrDe(v) ==
    CASE v.t = "None" -> <<"N", "o", "n", "e">>
      [] v.t = "str" -> v.s
      [] v.t = "int" -> (IF v.n < 0 THEN <<"-">> ELSE <<>>) \o Dec(Abs(v.n))
      [] v.t = "bool" -> IF v.b THEN <<"T", "r", "u", "e">> ELSE <<"F", "a", "l", "s", "e">>
      [] OTHER -> StrFloat(v.x)

FloatInvalido == [k |-> "erro", neg |-> FALSE, w |-> 0, d |-> 0]

SemSinal(t) == IF Len(t) > 0 /\ t[1] \in {"+", "-"} THEN Tail(t) ELSE t

\* the position of the first "." of r, Len(r) + 1 if it has none
PosPonto(r) ==
    IF \E i \in DOMAIN r : r[i] = "."
    THEN CHOOSE i \in DOMAIN r : r[i] = "." /\ \A j \in 1..(i - 1) : r[j] # "."
    ELSE Len(r) + 1

NumeroDe(neg, inteira, fracao) ==
    IF SoDigitos(inteira) /\ SoDigitos(fracao) /\ Len(inteira) + Len(fracao) > 0
    THEN Fin(neg, IntDe(inteira), IF Len(fracao) > 0 THEN ValorAlgarismo(fracao[1]) ELSE 0)
    ELSE FloatInvalido

FloatSemSinal(neg, r, pt) ==
    IF Lower(r) = <<"n", "a", "n">> THEN NaN
    ELSE IF Lower(r) \in {<<"i", "n", "f">>, <<"i", "n", "f", "i", "n", "i", "t", "y">>}
    THEN Inf(neg)
    ELSE NumeroDe(neg, SubSeq(r, 1, pt - 1), SubSeq(r, pt + 1, Len(r)))

FloatAparado(neg, r) == FloatSemSinal(neg, r, PosPonto(r))

FloatComSinal(t) == FloatAparado(Len(t) > 0 /\ t[1] = "-", SemSinal(t))

\* float(s) for a text: surrounding blanks ignored; an optional sign, then
\* nan, inf or infinity in any case, or digits with an optional fraction.
\* FloatInvalido stands for the ValueError.
FloatDeTexto(s) == FloatComSinal(Strip(s))

\* float(v): FloatInvalido for the ValueError, k = "tipo" for the TypeError
FloatDe(v) ==
    CASE v.t = "float" -> v.x
      [] v.t = "int" -> Fin(v.n < 0, Abs(v.n), 0)
      [] v.t = "bool" -> Fin(FALSE, IF v.b THEN 1 ELSE 0, 0)
      [] v.t = "str" -> FloatDeTexto(v.s)
      [] OTHER -> [k |-> "tipo", neg |-> FALSE, w |-> 0, d |-> 0]

\* pd.isna(v) for a scalar
IsNa(v) == v.t = "None" \/ (v.t = "float" /\ v.x.k = "nan")

\* v in ('', None)
VazioOuNone(v) == v.t = "None" \/ (v.t = "str" /\ v.s = <<>>)

\* dict access: reg.get(c) and reg[c] = v
Get(reg, c) == IF c \in DOMAIN reg THEN reg[c] ELSE PyNone
Por(reg, c, v) == [k \in DOMAIN reg \cup {c} |-> IF k = c THEN v ELSE reg[k]]

----------------------------------------------------------------------------
(* Errors: the exception class and its message, the message a sequence of  *)
(* literal fragments and interpolated values                               *)

Lit(s) == [t |-> "lit", v |-> s]
Val(cs) == [t |-> "val", v |-> cs]
Erro(classe, texto) == [classe |-> classe, texto |-> texto]

----------------------------------------------------------------------------
(* The backing store *)

Est(cod, tipo, imp, rem, temp, rep, rid) ==
    [Codigo |-> cod, TipoEstacao |-> tipo, Importado |-> imp, Removido |-> rem,
     Temporario |-> temp, ImportadoRepetido |-> rep, RegistroID |-> rid]

\* the WHERE clause shared by the store's code queries
Ativa(e) ==
    /\ e.TipoEstacao = TipoPluviometrica
    /\ e.Importado = 0
    /\ e.Removido = 0
    /\ e.Temporario = 0
    /\ e.ImportadoRepetido = 0

\* the range query of gerar_codigo_pluviometrica (CAST(Codigo AS BIGINT))
ConsultaIntervalo(bd, inicio, fim) ==
    {e.Codigo : e \in {x \in bd : Ativa(x) /\ x.Codigo >= inicio /\ x.Codigo < fim}}

----------------------------------------------------------------------------
(* _validar_coordenadas: the ValueError it raises, or "ok" *)

validar_coordenadas(latitude, longitude) ==
    IF ~Entre(latitude, LimiteLatitude)
    THEN Erro("ValueError", <<Lit("Latitude deve estar entre -90 e 90 graus.")>>)
    ELSE IF ~Entre(longitude, LimiteLongitude)
    THEN Erro("ValueError", <<Lit("Longitude deve estar entre -180 e 180 graus.")>>)
    ELSE Erro("ok", <<>>)

(* gerar_codigo_pluviometrica, lines 135-147 *)

LatValor(latitude) ==
    FmtD(IF Negativo(latitude) THEN Abs(Trunc(latitude))
         ELSE DeslocamentoNorte + Trunc(latitude), 2)

LonValor(longitude) == FmtD(Abs(Trunc(longitude)), 2)

PrefixoInicio(latitude, longitude) ==
    <<"0">> \o LatValor(latitude) \o LonValor(longitude)

PrefixoFim(latitude, longitude) ==
    <<"0">> \o LatValor(latitude) \o FmtD(IntDe(LonValor(longitude)) + 1, 2)

CodigoInicio(latitude, longitude) ==
    IntDe(PrefixoInicio(latitude, longitude) \o <<"0", "0", "0">>)

CodigoFim(latitude, longitude) ==
    IntDe(PrefixoFim(latitude, longitude) \o <<"0", "0", "0">>)

CodigosDoCache(cache, p) ==
    IF p \in DOMAIN cache THEN {cache[p][i] : i \in DOMAIN cache[p]} ELSE {}

\* todos_codigos, as the set of its members (only its maximum and its
\* emptiness are read)
TodosCodigos(bd, cache, latitude, longitude) ==
    ConsultaIntervalo(bd, CodigoInicio(latitude, longitude), CodigoFim(latitude, longitude))
        \cup CodigosDoCache(cache, PrefixoInicio(latitude, longitude))

NovoSequencial(todos) ==
    IF todos # {} THEN IntDe(Ultimos(Dec(Max(todos)), 3)) + 1 ELSE 1

\* the mutation of Armazenar that stores the number after the code's
Armazenar_Deslocado(cache, p, codigo) ==
    [q \in DOMAIN cache \cup {p} |->
        IF q = p
        THEN (IF p \in DOMAIN cache THEN cache[p] ELSE <<>>) \o <<IntDe(codigo) + 1>>
        ELSE cache[q]]

\* the cache after the new code is stored (lines 188-190)
Armazenar(cache, p, codigo) ==
    [q \in DOMAIN cache \cup {p} |->
        IF q = p
        THEN (IF p \in DOMAIN cache THEN cache[p] ELSE <<>>) \o <<IntDe(codigo)>>
        ELSE cache[q]]

\* lines 184-192
Emitir(cache, p, codigo) ==
    [erro |-> Erro("ok", <<>>), codigo |-> codigo, cache |-> Armazenar(cache, p, codigo)]

ErroGerar(cache, texto) ==
    [erro |-> Erro("Exception", <<Lit("Erro ao gerar código: "), Lit(texto)>>),
     codigo |-> <<>>, cache |-> cache]

GerarCom(cache, v, p, novo, consultaOk) ==
    IF v.classe # "ok" THEN [erro |-> v, codigo |-> <<>>, cache |-> cache]
    ELSE IF ~consultaOk THEN ErroGerar(cache, "pyodbc.Error")
    ELSE IF novo > LimiteSequencial
    THEN ErroGerar(cache, "Limite de estações atingido para esta quadrícula (máximo: 999).")
    ELSE Emitir(cache, p, p \o FmtD(novo, 3))

\* The whole call: [erro, codigo, cache].  consultaOk is whether the store's
\* query succeeds; every exception raised inside the try block leaves as a
\* plain Exception (lines 194-195).
gerar_codigo_pluviometrica(bd, cache, latitude, longitude, consultaOk) ==
    GerarCom(cache, validar_coordenadas(latitude, longitude),
             PrefixoInicio(latitude, longitude),
             NovoSequencial(TodosCodigos(bd, cache, latitude, longitude)), consultaOk)

----------------------------------------------------------------------------
(* Polygon layers and _preencher_codigos_geograficos *)

\* a float in signed tenths of a degree, to place a point in a box
Decimos(x) == (IF x.neg THEN -1 ELSE 1) * (10 * x.w + x.d)

\* a polygon of a layer: a box in whole degrees and its attribute values
Poligono(latMin, latMax, lonMin, lonMax, attrs) ==
    [latMin |-> latMin, latMax |-> latMax, lonMin |-> lonMin, lonMax |-> lonMax,
     attrs |-> attrs]

Intersecta(pol, latitude, longitude) ==
    /\ 10 * pol.latMin <= Decimos(latitude) /\ Decimos(latitude) <= 10 * pol.latMax
    /\ 10 * pol.lonMin <= Decimos(longitude) /\ Decimos(longitude) <= 10 * pol.lonMax

ValorAchado(camada, coluna, achados) ==
    IF coluna \notin camada.colunas THEN PyNone
    ELSE IF achados = {} THEN PyFloat(NaN)
    ELSE (CHOOSE pol \in achados : TRUE).attrs[coluna]

\* inter.at[0, coluna] if coluna in inter.columns else None, inter being the
\* left join of the point with the layer: NaN when no polygon holds the point
\* (the layers' polygons do not overlap)
ValorCamada(camada, coluna, latitude, longitude) ==
    ValorAchado(camada, coluna,
                {pol \in camada.poligonos : Intersecta(pol, latitude, longitude)})

\* the mutation of PreencherCampo that always takes the polygon's value
PreencherCampo_Sobrescreve(registro, campo, camada, coluna) ==
    Por(registro, campo,
        ValorCamada(camada, coluna, registro["Latitude"].x, registro["Longitude"].x))

\* one of the four guarded assignments (lines 214-224)
PreencherCampo(registro, campo, camada, coluna) ==
    IF IsNa(Get(registro, campo)) \/ VazioOuNone(registro[campo])
    THEN Por(registro, campo,
             ValorCamada(camada, coluna, registro["Latitude"].x, registro["Longitude"].x))
    ELSE registro

preencher_codigos_geograficos(registro, gdf_subbacia, gdf_municipio) ==
    PreencherCampo(
        PreencherCampo(
            PreencherCampo(
                PreencherCampo(registro, "SubBaciaCodigo", gdf_subbacia, "DNS_NU_SUB"),
                "BaciaCodigo", gdf_subbacia, "DNS_DNB_CD"),
            "MunicipioCodigo", gdf_municipio, "dbo__Mun_2"),
        "EstadoCodigo", gdf_municipio, "dbo__Mun_1")

----------------------------------------------------------------------------
(* Row normalization inside _processar_mdb *)

CamposBooleanos ==
    << <<"Escala", "TipoEstacaoEscala">>,
       <<"DescargaLiquida", "TipoEstacaoDescLiquida">>,
       <<"Sedimentos", "TipoEstacaoSedimentos">>,
       <<"QualidadeAgua", "TipoEstacaoQualAgua">>,
       <<"Pluviometro", "TipoEstacaoPluviometro">>,
       <<"Telemetrica", "TipoEstacaoTelemetrica">>,
       <<"Operando", "Operando">> >>

CamposNumericos ==
    <<"BaciaCodigo", "SubBaciaCodigo", "RioCodigo", "MunicipioCodigo",
      "EstadoCodigo", "ResponsavelCodigo">>

Verdadeiros ==
    {<<"S", "I", "M">>, <<"S">>, <<"T", "R", "U", "E">>, <<"1">>, <<"Y", "E", "S">>}

Falsos ==
    {<<"N", "Ã", "O">>, <<"N", "A", "O">>, <<"N">>, <<"F", "A", "L", "S", "E">>,
     <<"0">>, <<"N", "O">>}

\* lines 362-367, valor being the trimmed upper-cased text
Booleano(valor) ==
    IF valor \in Verdadeiros THEN PyInt(1)
    ELSE IF valor \in Falsos THEN PyInt(0)
    ELSE PyNone

\* the mutation of NormalizarBooleano that compares the text as it stands
NormalizarBooleano_SemStrip(v) == Booleano(Upper(StrDe(v)))

\* lines 361-367
NormalizarBooleano(v) == Booleano(Upper(Strip(StrDe(v))))

RECURSIVE NormalizarBooleanos(_, _)
\* the loop of lines 359-367, from the i-th flag on
NormalizarBooleanos(result, i) ==
    IF i > Len(CamposBooleanos) THEN result
    ELSE NormalizarBooleanos(
             IF CamposBooleanos[i][1] \in DOMAIN result
             THEN Por(result, CamposBooleanos[i][2], NormalizarBooleano(result[CamposBooleanos[i][1]]))
             ELSE result,
             i + 1)

\* int(x) of line 375 for the float x read from the text
InteiroDe(x) ==
    CASE x.k = "fin" -> [erro |-> "ok", valor |-> PyInt(Trunc(x))]
      [] x.k = "inf" -> [erro |-> "OverflowError", valor |-> PyNone]
      [] OTHER -> [erro |-> "ok", valor |-> PyNone]

\* int(float(str(v).strip())): the int, None for the ValueError the code
\* catches, or "OverflowError" for the error int() raises on an infinity
ConverterNumerico(v) == InteiroDe(FloatDeTexto(Strip(StrDe(v))))

RECURSIVE ConverterNumericos(_, _)
\* the loop of lines 372-377, from the i-th field on: [erro, result]
ConverterNumericos(result, i) ==
    IF i > Len(CamposNumericos) THEN [erro |-> "ok", result |-> result]
    ELSE IF CamposNumericos[i] \in DOMAIN result /\ result[CamposNumericos[i]].t # "None"
            /\ result[CamposNumericos[i]] # PyStr(<<>>)
    THEN (IF ConverterNumerico(result[CamposNumericos[i]]).erro # "ok"
          THEN [erro |-> ConverterNumerico(result[CamposNumericos[i]]).erro, result |-> result]
          ELSE ConverterNumericos(
                   Por(result, CamposNumericos[i], ConverterNumerico(result[CamposNumericos[i]]).valor),
                   i + 1))
    ELSE ConverterNumericos(result, i + 1)

\* the outer handler of _processar_mdb (lines 387-388)
ErroMdb(texto) == Erro("Exception", <<Lit("Erro ao processar arquivo MDB: ")>> \o texto)

\* the handler of line 345-346 around the coordinate block
ErroCoordenadas(result, texto) ==
    ErroMdb(<<Lit("Erro nas coordenadas da estação "), Val(StrDe(result["Nome"])), Lit(": ")>>
            \o texto)

ErroTipoFloat ==
    ErroMdb(<<Lit("float() argument must be a string or a number, not 'NoneType'")>>)

ErroConversao(result, campo) ==
    ErroCoordenadas(result, <<Lit("could not convert string to float: "), Val(StrDe(result[campo]))>>)

ErroForaDeFaixa(result, rotulo, x) ==
    ErroCoordenadas(result,
        <<Lit(rotulo), Val(StrFloat(x)), Lit(") para estação "), Val(StrDe(result["Nome"]))>>)

ValidarValores(result, latitude, longitude) ==
    IF latitude.k = "tipo" THEN ErroTipoFloat
    ELSE IF latitude.k = "erro" THEN ErroConversao(result, "Latitude")
    ELSE IF longitude.k = "tipo" THEN ErroTipoFloat
    ELSE IF longitude.k = "erro" THEN ErroConversao(result, "Longitude")
    ELSE IF ~Entre(latitude, LimiteLatitude)
    THEN ErroForaDeFaixa(result, "Latitude inválida (", latitude)
    ELSE IF ~Entre(longitude, LimiteLongitude)
    THEN ErroForaDeFaixa(result, "Longitude inválida (", longitude)
    ELSE Erro("ok", <<>>)

\* the failure of lines 327-333 for a row, or Erro("ok", ...)
ValidarLinha(result) ==
    ValidarValores(result, FloatDe(result["Latitude"]), FloatDe(result["Longitude"]))

FalhaLinha(e, row, cache, proximo) ==
    [erro |-> e, result |-> row, enriquecido |-> <<>>, cache |-> cache,
     proximo |-> proximo, codigo |-> <<>>]

\* lines 380-382
AtribuirRegistroID(result, proximo, semId) ==
    [result |-> IF semId THEN Por(result, "RegistroID", PyInt(proximo)) ELSE result,
     proximo |-> IF semId THEN proximo + 1 ELSE proximo]

ComRegistroID(result, proximo) ==
    AtribuirRegistroID(result, proximo,
        "RegistroID" \notin DOMAIN result \/ result["RegistroID"].t = "None")

\* lines 348-382, r2 being the enriched record
NormalizarLinha(row, r2, n, g, proximo) ==
    IF n.erro # "ok"
    THEN [erro |-> ErroMdb(<<Lit("cannot convert float infinity to integer")>>),
          result |-> row, enriquecido |-> r2, cache |-> g.cache,
          proximo |-> proximo, codigo |-> g.codigo]
    ELSE [erro |-> Erro("ok", <<>>),
          result |-> ComRegistroID(n.result, proximo).result,
          enriquecido |-> r2, cache |-> g.cache,
          proximo |-> ComRegistroID(n.result, proximo).proximo,
          codigo |-> g.codigo]

EnriquecerLinha(row, r2, g, proximo) ==
    NormalizarLinha(row, r2, ConverterNumericos(NormalizarBooleanos(r2, 1), 1), g, proximo)

\* lines 335-341, g being what gerar_codigo_pluviometrica gave
CodificarLinha(row, latitude, longitude, g, cache, camadas, proximo) ==
    IF g.erro.classe = "ValueError"
    THEN FalhaLinha(ErroCoordenadas(row, g.erro.texto), row, cache, proximo)
    ELSE IF g.erro.classe # "ok" THEN FalhaLinha(ErroMdb(g.erro.texto), row, cache, proximo)
    ELSE EnriquecerLinha(row,
             preencher_codigos_geograficos(
                 Por(Por(Por(row, "Latitude", PyFloat(latitude)),
                         "Longitude", PyFloat(longitude)), "Codigo", PyStr(g.codigo)),
                 camadas.subbacia, camadas.municipio),
             g, proximo)

LinhaValidada(row, v, latitude, longitude, bd, cache, camadas, proximo, consultaOk) ==
    IF v.classe # "ok" THEN FalhaLinha(v, row, cache, proximo)
    ELSE CodificarLinha(row, latitude, longitude,
             gerar_codigo_pluviometrica(bd, cache, latitude, longitude, consultaOk),
             cache, camadas, proximo)

\* One iteration of the loop of lines 322-382 on a row:
\* [erro, result, enriquecido, cache, proximo, codigo]
ProcessarUmaLinha(row, bd, cache, camadas, proximo, consultaOk) ==
    LinhaValidada(row, ValidarLinha(row), FloatDe(row["Latitude"]), FloatDe(row["Longitude"]),
                  bd, cache, camadas, proximo, consultaOk)

----------------------------------------------------------------------------
(* Inputs *)

\* contents of dbo.Estacao the session may start from
EstAtiva(cod, rid) == Est(cod, TipoPluviometrica, 0, 0, 0, 0, rid)

Bancos ==
    { {},
      {EstAtiva(2043001, 1), EstAtiva(2043002, 2), Est(2043005, TipoPluviometrica, 0, 1, 0, 0, 3),
       Est(2043007, 1, 0, 0, 0, 0, 4)},
      {EstAtiva(2043998, 1)},
      {EstAtiva(2043999, 1), EstAtiva(8560004, 2)},
      {EstAtiva(2100007, 1)},
      {EstAtiva(2099999, 1), EstAtiva(2100007, 2)},
      {EstAtiva(10543010, 1), EstAtiva(3120002, 2)},
      {EstAtiva(2099008, 1), EstAtiva(2100007, 2)} }

\* coordinate pairs handed to the generator
Coordenadas ==
    { <<Fin(TRUE, 20, 5), Fin(TRUE, 43, 2)>>,     \* (-20.5, -43.2)
      <<Fin(TRUE, 20, 9), Fin(TRUE, 43, 7)>>,     \* (-20.9, -43.7)
      <<Fin(FALSE, 5, 2), Fin(TRUE, 60, 9)>>,     \* (5.2, -60.9)
      <<Fin(TRUE, 20, 5), Fin(TRUE, 99, 5)>>,     \* (-20.5, -99.5)
      <<Fin(FALSE, 25, 0), Fin(TRUE, 43, 2)>>,    \* (25.0, -43.2)
      <<Fin(TRUE, 3, 5), Fin(FALSE, 120, 0)>>,    \* (-3.5, 120.0)
      <<Fin(FALSE, 45, 0), Fin(FALSE, 120, 5)>>,  \* (45.0, 120.5)
      <<Fin(TRUE, 0, 0), Fin(FALSE, 0, 4)>>,      \* (-0.0, 0.4)
      <<Fin(FALSE, 200, 0), Fin(TRUE, 43, 2)>>,   \* (200.0, -43.2)
      <<Fin(TRUE, 20, 5), Fin(TRUE, 180, 1)>>,    \* (-20.5, -180.1)
      <<Fin(TRUE, 20, 5), Fin(FALSE, 43, 2)>> }   \* (-20.5, 43.2)

----------------------------------------------------------------------------
(* Source files of an import *)

T(nome) == PyStr(<<nome>>)

Linha(nome, latitude, longitude, codigo) ==
    [c \in {"Nome", "Latitude", "Longitude", "Codigo"} |->
        CASE c = "Nome" -> T(nome)
          [] c = "Latitude" -> latitude
          [] c = "Longitude" -> longitude
          [] OTHER -> codigo]

F(neg, w, d) == PyFloat(Fin(neg, w, d))

\* rows that differ in their coordinates
LinhasCoordenadas ==
    { Linha("A", F(TRUE, 20, 5), F(TRUE, 43, 2), PyNone),
      Linha("B", F(TRUE, 20, 9), F(TRUE, 43, 7), PyNone),
      Linha("C", F(TRUE, 20, 5), F(TRUE, 99, 5), PyNone),
      Linha("D", F(FALSE, 200, 0), F(TRUE, 43, 2), PyNone),
      Linha("E", F(FALSE, 5, 2), F(TRUE, 60, 9), PyInt(8560001)),
      Linha("F", F(TRUE, 20, 5), F(TRUE, 180, 1), PyNone) }

RECURSIVE Sequencias(_, _)
\* the sequences over S of length at most n
Sequencias(S, n) ==
    IF n = 0 THEN {<<>>}
    ELSE LET menores == Sequencias(S, n - 1)
         IN  menores \cup {Append(q, x) : q \in menores, x \in S}

\* one-row variations of row A
LinhaA == Linha("A", F(TRUE, 20, 5), F(TRUE, 43, 2), PyNone)

\* a row of a table that has the RegistroID column
LinhaComRegistro(nome, registro) ==
    Por(Linha(nome, F(TRUE, 20, 5), F(TRUE, 43, 2), PyNone), "RegistroID", registro)

ValoresCoordenada ==
    { PyNone, PyStr(<<"a", "b", "c">>), PyStr(<<" ", "-", "2", "0", ".", "5">>),
      PyStr(<<"n", "a", "n">>), PyFloat(NaN), PyFloat(Inf(FALSE)), PyInt(-21), PyInt(91) }

ValoresBooleanos ==
    { PyStr(<<"S", "I", "M">>), PyStr(<<"s", "i", "m">>), PyStr(<<" ", "S", "i", "m", " ">>),
      PyStr(<<"S">>), PyStr(<<"t", "r", "u", "e">>), PyStr(<<"1">>), PyStr(<<"y", "e", "s">>),
      PyStr(<<"N", "Ã", "O">>), PyStr(<<"n", "ã", "o">>), PyStr(<<"N", "a", "o", "\t">>),
      PyStr(<<"n">>), PyStr(<<"F", "a", "l", "s", "e">>), PyStr(<<"0">>), PyStr(<<"N", "O">>),
      PyStr(<<>>), PyStr(<<"X">>), PyStr(<<"S", "I", "M", "S">>), PyStr(<<"1", ".", "0">>),
      PyStr(<<"S", " ", "I", "M">>), PyNone, PyBool(TRUE), PyBool(FALSE),
      PyInt(1), PyInt(0), PyInt(2), PyFloat(Fin(FALSE, 1, 0)) }

ValoresNumericos ==
    { PyStr(<<"1", "2">>), PyStr(<<" ", "1", "2", " ">>), PyStr(<<"1", "2", ".", "7">>),
      PyStr(<<"-", "3">>), PyStr(<<"a", "b", "c">>), PyStr(<<"n", "a", "n">>),
      PyStr(<<"i", "n", "f">>), PyStr(<<"I", "n", "f", "i", "n", "i", "t", "y">>),
      PyStr(<<"-", "i", "n", "f">>), PyStr(<<>>), PyStr(<<" ">>), PyNone, PyInt(7),
      PyFloat(Fin(FALSE, 12, 5)), PyFloat(NaN), PyFloat(Inf(FALSE)), PyBool(TRUE) }

ValoresGeograficos ==
    { PyNone, PyStr(<<>>), PyFloat(NaN), PyInt(9), PyStr(<<"9">>), PyStr(<<"x">>), PyInt(0) }

CamposGeograficos == {"SubBaciaCodigo", "BaciaCodigo", "MunicipioCodigo", "EstadoCodigo"}

LinhasVariadas ==
    {Por(LinhaA, "Latitude", v) : v \in ValoresCoordenada}
    \cup {Por(LinhaA, "Longitude", v) : v \in ValoresCoordenada}
    \cup {Por(Por(LinhaA, "Operando", v), "Escala", w) :
            v \in ValoresBooleanos, w \in {PyStr(<<"s">>), PyStr(<<"?">>)}}
    \cup {Por(LinhaA, CamposBooleanos[i][1], PyStr(<<"S", "i", "m">>)) : i \in DOMAIN CamposBooleanos}
    \cup {Por(LinhaA, "RioCodigo", v) : v \in ValoresNumericos}
    \cup {Por(LinhaA, CamposNumericos[i], v) :
            i \in DOMAIN CamposNumericos, v \in {PyStr(<<"i", "n", "f">>), PyStr(<<"7", "x">>)}}
    \cup {Por(LinhaA, c, v) : c \in CamposGeograficos, v \in ValoresGeograficos}
    \cup {[c \in DOMAIN LinhaA \cup CamposGeograficos |->
              IF c \in CamposGeograficos THEN v ELSE LinhaA[c]] : v \in {PyInt(9), PyStr(<<"9">>)}}
    \cup {Por(LinhaA, "RegistroID", v) : v \in {PyNone, PyInt(1), PyInt(50)}}
    \cup {Linha("G", PyNone, F(TRUE, 200, 0), PyNone)}

Arquivo(abre, tabelas, colunas, linhas) ==
    [abre |-> abre, tabelas |-> tabelas, colunas |-> colunas, linhas |-> linhas]

ColunasBase == {"Nome", "Latitude", "Longitude", "Codigo"}

SemColuna(row, c) == [k \in DOMAIN row \ {c} |-> row[k]]

Arquivos ==
    {Arquivo(TRUE, {"Estacoes_Novas"}, ColunasBase, q) :
        q \in Sequencias(LinhasCoordenadas, MaxLinhas)}
    \cup {Arquivo(TRUE, {"Estacoes_Novas"}, DOMAIN r, <<r>>) : r \in LinhasVariadas}
    \cup {Arquivo(TRUE, {"Estacoes_Novas"}, ColunasBase \ {c}, <<SemColuna(LinhaA, c)>>) :
            c \in {"Codigo", "Latitude", "Nome"}}
    \cup {Arquivo(TRUE, {"Estacoes_Novas"}, ColunasBase \cup {"RegistroID"}, q) :
            q \in {<<LinhaComRegistro("A", PyInt(1)), LinhaComRegistro("B", PyNone)>>,
                   <<LinhaComRegistro("A", PyNone), LinhaComRegistro("B", PyInt(1))>>,
                   <<LinhaComRegistro("A", PyNone), LinhaComRegistro("B", PyInt(50))>>}}
    \cup {Arquivo(TRUE, {"Estacoes_Novas"}, {"Codigo"}, <<>>),
          Arquivo(TRUE, {"Estacao"}, ColunasBase, <<LinhaA>>),
          Arquivo(FALSE, {}, {}, <<>>)}

Caminhos ==
    { <<"e", ".", "m", "d", "b">>, <<"e", ".", "x", "l", "s", "x">>, <<"e", ".", "M", "D", "B">> }

\* what the shapefile directory may hold when the layers are read
CaixaSudeste(attrs) == Poligono(-30, -10, -50, -40, attrs)

CamadaSubbacia ==
    [colunas |-> {"DNS_NU_SUB", "DNS_DNB_CD"},
     poligonos |-> {CaixaSudeste([c \in {"DNS_NU_SUB", "DNS_DNB_CD"} |->
                        IF c = "DNS_NU_SUB" THEN PyInt(56) ELSE PyInt(5)])}]

CamadaMunicipio ==
    [colunas |-> {"dbo__Mun_2", "dbo__Mun_1"},
     poligonos |-> {CaixaSudeste([c \in {"dbo__Mun_2", "dbo__Mun_1"} |->
                        IF c = "dbo__Mun_2" THEN PyInt(31062) ELSE PyInt(31)])}]

CamadaSemAtributos == [colunas |-> {}, poligonos |-> {CaixaSudeste(<<>>)}]

SemCamadas == [carregado |-> FALSE, subbacia |-> CamadaSemAtributos,
               municipio |-> CamadaSemAtributos]

Insumos ==
    { [carregado |-> TRUE, subbacia |-> CamadaSubbacia, municipio |-> CamadaMunicipio],
      [carregado |-> TRUE, subbacia |-> CamadaSemAtributos, municipio |-> CamadaMunicipio] }

----------------------------------------------------------------------------
(* The manager *)

Retorno(tipo, erro) ==
    [tipo |-> tipo, erro |-> erro, codigo |-> <<>>, latitude |-> NaN, longitude |-> NaN,
     registros |-> <<>>]

SemRetorno == Retorno("nenhum", Erro("ok", <<>>))

\* the output file: what it is, whether it has the table Estacao, the column
\* names its rows are written under, the rows it holds, the rows inserted and
\* not yet committed, and how many commits it has seen
Destino(formato, tabela, colunas) ==
    [formato |-> formato, tabela |-> tabela, colunas |-> colunas, linhas |-> <<>>,
     pendentes |-> <<>>, commits |-> 0]

SemDestino == Destino("nenhum", FALSE, <<>>)

Init ==
    /\ banco \in Bancos
    /\ codigos_gerados = <<>>
    /\ chamadas = 0
    /\ retorno = SemRetorno
    /\ emitidos = <<>>
    /\ shapes = SemCamadas
    /\ pc = "ocioso"
    /\ selecionadas = <<>>
    /\ idx = 1
    /\ results = <<>>
    /\ next_registro_id = 1
    /\ enriquecido = [linha |-> 0, registro |-> <<>>]
    /\ descartados = 0
    /\ colunas_existentes = {}
    /\ dados = <<>>
    /\ df = <<>>
    /\ destino = SemDestino
    /\ pos = 1
    /\ log = <<>>

(* A session of direct calls of the generator on one manager *)

Chamar(r, latitude, longitude) ==
    /\ pc = "ocioso"
    /\ chamadas < MaxChamadas
    /\ chamadas' = chamadas + 1
    /\ codigos_gerados' = r.cache
    /\ retorno' = [Retorno(IF r.erro.classe = "ok" THEN "codigo" ELSE "erro", r.erro)
                      EXCEPT !.codigo = r.codigo, !.latitude = latitude,
                             !.longitude = longitude]
    /\ emitidos' = IF r.erro.classe = "ok" THEN Append(emitidos, r.codigo) ELSE emitidos
    /\ UNCHANGED <<banco, varsImportacao, varsExportacao>>

Gerar(latitude, longitude, consultaOk) ==
    Chamar(gerar_codigo_pluviometrica(banco, codigos_gerados, latitude, longitude, consultaOk),
           latitude, longitude)

GerarOk == \E c \in Coordenadas : Gerar(c[1], c[2], TRUE)

GerarFalhaConsulta == \E c \in Coordenadas : Gerar(c[1], c[2], FALSE)

NextGerador == GerarOk \/ GerarFalhaConsulta

SpecGerador == Init /\ [][NextGerador]_vars

----------------------------------------------------------------------------
(* processar_arquivo and _processar_mdb *)

ColunasObrigatorias == <<"Nome", "Latitude", "Longitude">>

\* MAX(RegistroID) over dbo.Estacao, "or 0"
MaxRegistroID(bd) == IF bd = {} THEN 0 ELSE Max({e.RegistroID : e \in bd})

RECURSIVE SomaTamanhos(_, _)
SomaTamanhos(cache, D) ==
    IF D = {} THEN 0
    ELSE LET p == CHOOSE q \in D : TRUE
         IN  Len(cache[p]) + SomaTamanhos(cache, D \ {p})

\* how many codes the cache holds
TamanhoCache(cache) == SomaTamanhos(cache, DOMAIN cache)

\* the mutation of CacheAoIniciar that keeps the codes of the earlier run
CacheAoIniciar_Mantem(cache) == cache

\* line 233: self.codigos_gerados = {}
CacheAoIniciar(cache) == <<>>

ListaFaltantes(faltantes) ==
    ErroMdb(<<Lit("As seguintes colunas obrigatórias estão faltando na tabela 'Estacoes_Novas': ")>>
            \o [i \in DOMAIN faltantes |-> Lit(faltantes[i])])

AbrirCom(arq, carga, consultaOk, faltantes) ==
    IF ~arq.abre THEN ErroMdb(<<Lit("pyodbc.Error")>>)
    ELSE IF "Estacoes_Novas" \notin arq.tabelas
    THEN ErroMdb(<<Lit("O arquivo MDB deve conter uma tabela chamada 'Estacoes_Novas'")>>)
    ELSE IF faltantes # <<>> THEN ListaFaltantes(faltantes)
    ELSE IF ~consultaOk
    THEN ErroMdb(<<Lit("Erro ao buscar maior RegistroID: "), Lit("pyodbc.Error")>>)
    ELSE IF "Codigo" \notin arq.colunas THEN ErroMdb(<<Lit("pyodbc.Error")>>)
    ELSE IF ~shapes.carregado /\ ~carga.carregado
    THEN ErroMdb(<<Lit("Erro ao carregar shapefiles: "), Lit("DriverError")>>)
    ELSE Erro("ok", <<>>)

\* _processar_mdb up to the row loop (lines 274-321): the error it raises,
\* or "ok".  carga is what reading the shapefiles gives: layers, or
\* SemCamadas when the read fails.
Abrir(arq, carga, consultaOk) ==
    AbrirCom(arq, carga, consultaOk,
             SelectSeq(ColunasObrigatorias, LAMBDA c : c \notin arq.colunas))

\* line 231
RejeitarCaminho ==
    /\ retorno' = Retorno("erro", Erro("ValueError",
          <<Lit("Formato de arquivo não suportado. Use apenas arquivos .mdb")>>))
    /\ pc' = "retornado"
    /\ UNCHANGED <<codigos_gerados, emitidos, shapes, selecionadas, idx,
                   results, next_registro_id, enriquecido, descartados,
                   colunas_existentes>>

\* the mutation of CarregarShapes that reads the shapefiles at every import
CarregarShapes_Sempre(atual, carga) == carga

\* self._gdf_subbacia, self._gdf_municipio after lines 315-317: read only when
\* the manager has no layers yet
CarregarShapes(atual, carga) == IF atual.carregado THEN atual ELSE carga

\* colunas_existentes (line 294), read once the table is known to exist
ColunasDaTabela(arq) ==
    IF arq.abre /\ "Estacoes_Novas" \in arq.tabelas THEN arq.colunas ELSE {}

\* lines 233-234, e being what _processar_mdb raises before its row loop
Iniciar(arq, carga, e) ==
    /\ codigos_gerados' = CacheAoIniciar(codigos_gerados)
    /\ descartados' = TamanhoCache(codigos_gerados)
    /\ emitidos' = <<>>
    /\ results' = <<>>
    /\ idx' = 1
    /\ enriquecido' = [linha |-> 0, registro |-> <<>>]
    /\ colunas_existentes' = ColunasDaTabela(arq)
    /\ IF e.classe = "ok"
       THEN /\ pc' = "linhas"
            /\ retorno' = SemRetorno
            /\ selecionadas' = SelectSeq(arq.linhas, LAMBDA r : r["Codigo"].t = "None")
            /\ next_registro_id' = MaxRegistroID(banco) + 1
            /\ shapes' = CarregarShapes(shapes, carga)
       ELSE /\ pc' = "retornado"
            /\ retorno' = Retorno("erro", e)
            /\ selecionadas' = <<>>
            /\ next_registro_id' = next_registro_id
            /\ shapes' = shapes

ProcessarArquivo(caminho, arq, carga, consultaOk) ==
    /\ pc = "ocioso"
    /\ IF ~EndsWith(caminho, <<".", "m", "d", "b">>)
       THEN RejeitarCaminho
       ELSE Iniciar(arq, carga, Abrir(arq, carga, consultaOk))
    /\ UNCHANGED <<banco, chamadas, varsExportacao>>

Importar ==
    \E caminho \in Caminhos, arq \in Arquivos, carga \in Insumos \cup {SemCamadas},
       consultaOk \in BOOLEAN :
        ProcessarArquivo(caminho, arq, carga, consultaOk)

\* the mutation of AplicarLinha that stops at the failing row and hands back
\* the records of the rows before it
AplicarLinha_Parcial(r) ==
    /\ codigos_gerados' = r.cache
    /\ emitidos' = IF r.codigo # <<>> THEN Append(emitidos, r.codigo) ELSE emitidos
    /\ enriquecido' = IF r.enriquecido # <<>>
                      THEN [linha |-> idx, registro |-> r.enriquecido]
                      ELSE enriquecido
    /\ IF r.erro.classe = "ok"
       THEN /\ results' = Append(results, r.result)
            /\ idx' = idx + 1
            /\ next_registro_id' = r.proximo
            /\ UNCHANGED <<pc, retorno>>
       ELSE /\ pc' = "retornado"
            /\ retorno' = [Retorno("registros", Erro("ok", <<>>)) EXCEPT !.registros = results]
            /\ UNCHANGED <<idx, results, next_registro_id>>

\* what one iteration does to the run, r being what it computed: the record
\* joins results, or the exception leaves _processar_mdb (lines 387-388)
AplicarLinha(r) ==
    /\ codigos_gerados' = r.cache
    /\ emitidos' = IF r.codigo # <<>> THEN Append(emitidos, r.codigo) ELSE emitidos
    /\ enriquecido' = IF r.enriquecido # <<>>
                      THEN [linha |-> idx, registro |-> r.enriquecido]
                      ELSE enriquecido
    /\ IF r.erro.classe = "ok"
       THEN /\ results' = Append(results, r.result)
            /\ idx' = idx + 1
            /\ next_registro_id' = r.proximo
            /\ UNCHANGED <<pc, retorno>>
       ELSE /\ pc' = "retornado"
            /\ retorno' = Retorno("erro", r.erro)
            /\ results' = <<>>
            /\ UNCHANGED <<idx, next_registro_id>>

\* one iteration of the row loop
ProcessarLinha(consultaOk) ==
    /\ pc = "linhas"
    /\ idx <= Len(selecionadas)
    /\ AplicarLinha(ProcessarUmaLinha(selecionadas[idx], banco, codigos_gerados, shapes,
                                      next_registro_id, consultaOk))
    /\ UNCHANGED <<banco, chamadas, shapes, selecionadas, descartados,
                   colunas_existentes, varsExportacao>>

Linhas == \E consultaOk \in BOOLEAN : ProcessarLinha(consultaOk)

\* lines 384-385: the loop is over
Retornar ==
    /\ pc = "linhas"
    /\ idx > Len(selecionadas)
    /\ pc' = "retornado"
    /\ retorno' = [Retorno("registros", Erro("ok", <<>>)) EXCEPT !.registros = results]
    /\ UNCHANGED <<banco, codigos_gerados, chamadas, emitidos, shapes, selecionadas, idx,
                   results, next_registro_id, enriquecido, descartados,
                   colunas_existentes, varsExportacao>>

\* the caller (MainWindow.processar_arquivo) is done with what it was handed:
\* the locals of the call are gone, the manager keeps its cache and layers;
\* the next export writes a fresh copy of the template
Concluir ==
    /\ pc = "retornado"
    /\ pc' = "ocioso"
    /\ retorno' = SemRetorno
    /\ emitidos' = <<>>
    /\ selecionadas' = <<>>
    /\ idx' = 1
    /\ results' = <<>>
    /\ next_registro_id' = 1
    /\ enriquecido' = [linha |-> 0, registro |-> <<>>]
    /\ descartados' = 0
    /\ colunas_existentes' = {}
    /\ dados' = <<>>
    /\ df' = <<>>
    /\ destino' = SemDestino
    /\ pos' = 1
    /\ log' = <<>>
    /\ UNCHANGED <<banco, codigos_gerados, chamadas, shapes>>

Next == Importar \/ Linhas \/ Retornar \/ Concluir

Spec == Init /\ [][Next]_vars

----------------------------------------------------------------------------
(* exportar_resultados *)

\* lines 423-442
ordem_colunas ==
    <<
      "RegistroID", "Importado", "Temporario", "Removido", "ImportadoRepetido",
      "BaciaCodigo", "SubBaciaCodigo", "RioCodigo", "EstadoCodigo", "MunicipioCodigo",
      "ResponsavelCodigo", "ResponsavelUnidade", "ResponsavelJurisdicao",
      "OperadoraCodigo", "OperadoraUnidade", "OperadoraSubUnidade", "TipoEstacao",
      "Codigo", "Nome", "CodigoAdicional", "Latitude", "Longitude", "Altitude",
      "AreaDrenagem", "TipoEstacaoEscala", "TipoEstacaoRegistradorNivel",
      "TipoEstacaoDescLiquida", "TipoEstacaoSedimentos", "TipoEstacaoQualAgua",
      "TipoEstacaoPluviometro", "TipoEstacaoRegistradorChuva", "TipoEstacaoTanqueEvapo",
      "TipoEstacaoClimatologica", "TipoEstacaoPiezometria", "TipoEstacaoTelemetrica",
      "PeriodoEscalaInicio", "PeriodoEscalaFim", "PeriodoRegistradorNivelInicio",
      "PeriodoRegistradorNivelFim", "PeriodoDescLiquidaInicio", "PeriodoDescLiquidaFim",
      "PeriodoSedimentosInicio", "PeriodoSedimentosFim", "PeriodoQualAguaInicio",
      "PeriodoQualAguaFim", "PeriodoPluviometroInicio", "PeriodoPluviometroFim",
      "PeriodoRegistradorChuvaInicio", "PeriodoRegistradorChuvaFim",
      "PeriodoTanqueEvapoInicio", "PeriodoTanqueEvapoFim", "PeriodoClimatologicaInicio",
      "PeriodoClimatologicaFim", "PeriodoPiezometriaInicio", "PeriodoPiezometriaFim",
      "PeriodoTelemetricaInicio", "PeriodoTelemetricaFim", "TipoRedeBasica",
      "TipoRedeEnergetica", "RespAlt"
    >>

\* lines 476-480
colunas_inteiras ==
    {"Codigo", "RegistroID", "BaciaCodigo", "SubBaciaCodigo", "RioCodigo", "EstadoCodigo",
     "MunicipioCodigo", "ResponsavelCodigo", "TipoEstacao", "Importado", "Temporario",
     "Removido", "ImportadoRepetido"}

\* df.columns of pd.DataFrame(dados): every field some record has
ColunasDoFrame(d) == UNION {DOMAIN d[i] : i \in DOMAIN d}

\* the mutation of Celula that fills a missing field with the empty text
Celula_Vazia(d, i, col) == IF col \in DOMAIN d[i] THEN d[i][col] ELSE PyStr(<<>>)

\* the cell of record i under col once the missing columns are added: the
\* record's value; NaN where other records have the field and this one has
\* not; None where no record has it (line 448)
Celula(d, i, col) ==
    IF col \in DOMAIN d[i] THEN d[i][col]
    ELSE IF col \in ColunasDoFrame(d) THEN PyFloat(NaN)
    ELSE PyNone

\* df = df[ordem_colunas] (line 449): the cells of a record in canonical order
LinhaDoFrame(d, i) == [k \in DOMAIN ordem_colunas |-> Celula(d, i, ordem_colunas[k])]

Frame(d) == [i \in DOMAIN d |-> LinhaDoFrame(d, i)]

InteiroDoTexto(neg, r) ==
    IF Len(r) > 0 /\ SoDigitos(r) THEN PyInt((IF neg THEN -1 ELSE 1) * IntDe(r)) ELSE PyNone

InteiroAparado(t) == InteiroDoTexto(Len(t) > 0 /\ t[1] = "-", SemSinal(t))

\* lines 489-492: int(val), None for whatever it raises
IntDeValor(v) ==
    CASE v.t = "int" -> v
      [] v.t = "bool" -> PyInt(IF v.b THEN 1 ELSE 0)
      [] v.t = "float" -> (IF v.x.k = "fin" THEN PyInt(Trunc(v.x)) ELSE PyNone)
      [] v.t = "str" -> InteiroAparado(Strip(v.s))
      [] OTHER -> PyNone

\* lines 485-494: the value inserted for a cell
ValorMdb(col, val) ==
    IF IsNa(val) THEN PyNone
    ELSE IF col \in colunas_inteiras THEN IntDeValor(val)
    ELSE PyStr(StrDe(val))

ValoresMdb(linha) == [k \in DOMAIN ordem_colunas |-> ValorMdb(ordem_colunas[k], linha[k])]

\* a written row: the record it came from and its values in column order
Escrita(i, valores) == [origem |-> i, valores |-> valores]

\* a cell as to_excel writes it: a missing value (None, NaN) is an empty cell
CelulaExcel(val) == IF IsNa(val) THEN PyNone ELSE val

\* df.to_excel (line 453): every row of the frame under the frame's header
Planilha(quadro) ==
    [Destino("xlsx", FALSE, ordem_colunas) EXCEPT
        !.linhas = [i \in DOMAIN quadro |->
                       Escrita(i, [k \in DOMAIN quadro[i] |-> CelulaExcel(quadro[i][k])])]]

PosicaoDe(col) == CHOOSE k \in DOMAIN ordem_colunas : ordem_colunas[k] = col

\* what the export may find around it: the template (absent, without the
\* table Estacao, or whole), whether it can be copied, whether the copy opens,
\* whether the spreadsheet can be written
Ambientes ==
    [template : {"ausente", "semTabela", "ok"}, copia : BOOLEAN, conecta : BOOLEAN,
     grava : BOOLEAN]

CaminhosSaida ==
    { <<"s", ".", "x", "l", "s", "x">>, <<"s", ".", "m", "d", "b">>, <<"s", ".", "c", "s", "v">> }

\* records handed to the export: one as an import returns it, with fields
\* outside the canonical list; one with few fields; one with values the
\* integer columns cannot take
RegistroA ==
    ("Nome" :> PyStr(<<"A">>)) @@ ("Latitude" :> F(TRUE, 20, 5)) @@
    ("Longitude" :> F(TRUE, 43, 2)) @@
    ("Codigo" :> PyStr(<<"0", "2", "0", "4", "3", "0", "0", "1">>)) @@
    ("RegistroID" :> PyInt(1)) @@ ("RioCodigo" :> PyInt(12)) @@
    ("Escala" :> PyStr(<<"S", "i", "m">>)) @@ ("TipoEstacaoEscala" :> PyInt(1)) @@
    ("Operando" :> PyInt(1))

RegistroB ==
    ("Nome" :> PyStr(<<"B">>)) @@ ("Latitude" :> F(TRUE, 20, 9)) @@
    ("Longitude" :> F(TRUE, 43, 7)) @@
    ("Codigo" :> PyStr(<<"0", "2", "0", "4", "3", "0", "0", "2">>))

RegistroC ==
    ("Nome" :> PyStr(<<"C">>)) @@ ("Codigo" :> PyNone) @@
    ("RioCodigo" :> PyStr(<<"1", "x">>)) @@ ("BaciaCodigo" :> PyStr(<<" ", "5", " ">>)) @@
    ("MunicipioCodigo" :> PyFloat(Inf(FALSE))) @@ ("Altitude" :> PyFloat(NaN)) @@
    ("Observacao" :> PyStr(<<"z">>))

Registros == {RegistroA, RegistroB, RegistroC}

DadosExportaveis == Sequencias(Registros, MaxRegistros)

\* the export leaves with an exception
FalharExportacao(e, d) ==
    /\ retorno' = Retorno("erro", e)
    /\ pc' = "retornado"
    /\ destino' = d

ExportacaoFeita(d) ==
    /\ retorno' = Retorno("exportado", Erro("ok", <<>>))
    /\ pc' = "retornado"
    /\ destino' = d

\* lines 454-471: the template is found, copied to the output path and opened
AbrirCopia(amb) ==
    IF amb.template = "ausente"
    THEN FalharExportacao(Erro("FileNotFoundError",
             <<Lit("Arquivo de template 'Codificacao/mdb/template.mdb' não encontrado.")>>),
             SemDestino)
    ELSE IF ~amb.copia
    THEN FalharExportacao(Erro("IOError",
             <<Lit("Erro ao copiar o arquivo de template: "), Lit("OSError")>>), SemDestino)
    ELSE IF ~amb.conecta
    THEN FalharExportacao(Erro("Exception",
             <<Lit("Erro ao escrever no banco de dados MDB: "), Lit("pyodbc.Error")>>),
             Destino("mdb", amb.template = "ok", <<>>))
    ELSE /\ pc' = "inserindo"
         /\ retorno' = SemRetorno
         /\ destino' = Destino("mdb", amb.template = "ok", ordem_colunas)

\* lines 452-514
Destinar(caminho, amb, quadro) ==
    IF EndsWith(caminho, <<".", "x", "l", "s", "x">>)
    THEN (IF amb.grava THEN ExportacaoFeita(Planilha(quadro))
          ELSE FalharExportacao(Erro("OSError", <<Lit("PermissionError")>>), SemDestino))
    ELSE IF EndsWith(caminho, <<".", "m", "d", "b">>) THEN AbrirCopia(amb)
    ELSE FalharExportacao(Erro("ValueError",
             <<Lit("Formato de arquivo não suportado. Use .xlsx ou .mdb")>>), SemDestino)

\* exportar_resultados up to its insert loop
ExportarResultados(d, caminho, amb) ==
    /\ pc = "ocioso"
    /\ dados' = d
    /\ pos' = 1
    /\ log' = <<>>
    /\ IF d = <<>>
       THEN /\ df' = <<>>
            /\ FalharExportacao(Erro("ValueError", <<Lit("Não há dados para exportar")>>),
                                SemDestino)
       ELSE /\ df' = Frame(d)
            /\ Destinar(caminho, amb, Frame(d))
    /\ UNCHANGED <<banco, codigos_gerados, chamadas, emitidos, shapes, selecionadas, idx,
                   results, next_registro_id, enriquecido, descartados,
                   colunas_existentes>>

Exportar ==
    \E d \in DadosExportaveis, caminho \in CaminhosSaida, amb \in Ambientes :
        ExportarResultados(d, caminho, amb)

\* the insert sent to the driver raises pyodbc.Error
InsercaoFalha ==
    /\ destino' = destino
    /\ log' = Append(log, StrDe(df[pos][PosicaoDe("Nome")]))

\* the mutation of InsercaoAceita on a connection that commits every insert
InsercaoAceita_Direta ==
    /\ destino' = [destino EXCEPT !.linhas = Append(@, Escrita(pos, ValoresMdb(df[pos])))]
    /\ log' = log

InsercaoAceita ==
    /\ destino' = [destino EXCEPT !.pendentes = Append(@, Escrita(pos, ValoresMdb(df[pos])))]
    /\ log' = log

\* one iteration of the loop of lines 482-505; aceita is whether the driver
\* takes the row, which it cannot when the table Estacao is not there
InserirLinha(aceita) ==
    /\ pc = "inserindo"
    /\ pos <= Len(df)
    /\ IF destino.tabela /\ aceita THEN InsercaoAceita ELSE InsercaoFalha
    /\ pos' = pos + 1
    /\ UNCHANGED <<banco, codigos_gerados, chamadas, retorno, emitidos, varsImportacao,
                   dados, df>>

Inserir == \E aceita \in BOOLEAN : InserirLinha(aceita)

\* lines 507-512: the commit after the loop, and the close
Commit(ok) ==
    /\ pc = "inserindo"
    /\ pos > Len(df)
    /\ IF ok
       THEN ExportacaoFeita([destino EXCEPT !.linhas = destino.pendentes,
                                            !.pendentes = <<>>, !.commits = @ + 1])
       ELSE FalharExportacao(Erro("Exception",
                <<Lit("Erro ao escrever no banco de dados MDB: "), Lit("pyodbc.Error")>>),
                [destino EXCEPT !.pendentes = <<>>])
    /\ UNCHANGED <<banco, codigos_gerados, chamadas, emitidos, shapes, selecionadas, idx,
                   results, next_registro_id, enriquecido, descartados,
                   colunas_existentes, dados, df, pos, log>>

Confirmar == \E ok \in BOOLEAN : Commit(ok)

NextExportar == Exportar \/ Inserir \/ Confirmar \/ Concluir

SpecExportar == Init /\ [][NextExportar]_vars

----------------------------------------------------------------------------
(* Vocabulary of the properties: a code's parts, and the store's view of a *)
(* quadrant, stated from the specification's words                         *)

PrefixoDe(codigo) == SubSeq(codigo, 1, Len(codigo) - 3)

SequencialDe(codigo) == IntDe(Ultimos(codigo, 3))

\* a band below 100 written with exactly two digits
DoisDigitos(b) == <<Algarismos[((b \div 10) % 10) + 1], Algarismos[(b % 10) + 1]>>

BandaLatitude(latitude) ==
    IF Negativo(latitude) THEN latitude.w ELSE 80 + latitude.w

BandaLongitude(longitude) == longitude.w

\* sequences persisted for the quadrant whose prefix reads as the number P:
\* active rainfall codes in [P*1000, (P+1)*1000)
SequenciaisPersistidos(P) ==
    {e.Codigo % 1000 : e \in {x \in banco : Ativa(x) /\ x.Codigo \div 1000 = P}}

MaxPersistido(P) ==
    IF SequenciaisPersistidos(P) = {} THEN 0 ELSE Max(SequenciaisPersistidos(P))

EmitidosDe(p) == SelectSeq(emitidos, LAMBDA c : PrefixoDe(c) = p)

PrefixosEmitidos == {PrefixoDe(emitidos[i]) : i \in DOMAIN emitidos}

----------------------------------------------------------------------------
(* C1 *)

----------------------------------------------------------------------------
(* C2 *)

\* C2: the quadrant prefix of every returned code is exactly 5 characters:
\* "0", the latitude band in two digits, the longitude band in two digits.
C2_PrefixoCinco ==
    retorno.tipo = "codigo" =>
        /\ Len(PrefixoDe(retorno.codigo)) = 5
        /\ PrefixoDe(retorno.codigo) =
              <<"0">> \o DoisDigitos(BandaLatitude(retorno.latitude))
                      \o DoisDigitos(BandaLongitude(retorno.longitude))
        /\ PrefixoDe(retorno.codigo) \in DOMAIN codigos_gerados

----------------------------------------------------------------------------
(* C3 *)

\* C3: for every quadrant, the codes returned for it in this session carry
\* the sequences m+1, m+2, ..., m+N in order, m being the largest sequence
\* persisted for that quadrant among active rainfall stations (0 if none).
C3_Contiguo ==
    \A p \in PrefixosEmitidos :
        \A j \in 1..Len(EmitidosDe(p)) :
            SequencialDe(EmitidosDe(p)[j]) = MaxPersistido(IntDe(p)) + j

----------------------------------------------------------------------------
(* C5 *)

\* the largest sequence allocated to the quadrant of prefix p, in the store
\* or in the session cache (0 if none)
MaxAlocado(p) ==
    LET S == SequenciaisPersistidos(IntDe(p)) \cup
             (IF p \in DOMAIN codigos_gerados
              THEN {codigos_gerados[p][i] % 1000 : i \in DOMAIN codigos_gerados[p]}
              ELSE {})
    IN  IF S = {} THEN 0 ELSE Max(S)

\* C5: a call for a quadrant whose largest allocated sequence is 999 fails
\* with a condition of its own, distinct from that of a validation failure
\* and from that of a failed store query; it returns no code and leaves the
\* session cache unchanged.
C5_Esgotado ==
    [][\A c \in Coordenadas :
          (/\ Gerar(c[1], c[2], TRUE)
           /\ validar_coordenadas(c[1], c[2]).classe = "ok"
           /\ MaxAlocado(PrefixoInicio(c[1], c[2])) = LimiteSequencial)
          => /\ retorno'.tipo = "erro"
             /\ retorno'.erro.classe # validar_coordenadas(Inf(FALSE), c[2]).classe
             /\ retorno'.erro.classe #
                   gerar_codigo_pluviometrica(banco, codigos_gerados, c[1], c[2], FALSE).erro.classe
             /\ emitidos' = emitidos
             /\ codigos_gerados' = codigos_gerados]_vars

----------------------------------------------------------------------------
(* C4 *)

\* C4: within one import run, with nothing persisted in between, the codes
\* the generator returned for the rows of the run are pairwise distinct.
C4_Distintos ==
    \A i, j \in DOMAIN emitidos : i # j => emitidos[i] # emitidos[j]

----------------------------------------------------------------------------
(* C6 *)

\* C6: the session cache is empty when the first row of an import run is
\* processed, whatever earlier runs on the same manager left in it; while the
\* rows are processed it holds the codes issued in this run and no other.
C6_CacheReiniciado ==
    pc = "linhas" =>
        /\ idx = 1 => codigos_gerados = <<>>
        /\ TamanhoCache(codigos_gerados) = Len(emitidos)

\* a run about to process its first row on a manager whose cache held codes
\* of an earlier run when the run began
C6_Witness ==
    /\ pc = "linhas"
    /\ idx = 1
    /\ Len(selecionadas) > 0
    /\ descartados > 0
    /\ codigos_gerados = <<>>

----------------------------------------------------------------------------
(* C7 *)

\* a value that is neither null (None, NaN) nor the empty text
Preenchido(v) == v # PyNone /\ v # PyFloat(NaN) /\ v # PyStr(<<>>)

\* C7: for each of SubBaciaCodigo, BaciaCodigo, MunicipioCodigo and
\* EstadoCodigo, a value that is non-null and non-empty on the incoming
\* record is the field's value after enrichment, whatever polygon holds the
\* point.
C7_NaoSobrescreve ==
    enriquecido.linha > 0 =>
        \A c \in CamposGeograficos \cap DOMAIN selecionadas[enriquecido.linha] :
            Preenchido(selecionadas[enriquecido.linha][c]) =>
                enriquecido.registro[c] = selecionadas[enriquecido.linha][c]

\* a record with the municipality code 9 supplied, enriched while its point
\* lies in the polygon of municipality 31062
C7_Witness ==
    /\ enriquecido.linha > 0
    /\ "MunicipioCodigo" \in DOMAIN selecionadas[enriquecido.linha]
    /\ selecionadas[enriquecido.linha]["MunicipioCodigo"] = PyInt(9)
    /\ shapes.municipio = CamadaMunicipio
    /\ \E pol \in shapes.municipio.poligonos :
          /\ Intersecta(pol, enriquecido.registro["Latitude"].x,
                        enriquecido.registro["Longitude"].x)
          /\ pol.attrs["dbo__Mun_2"] = PyInt(31062)
    /\ enriquecido.registro["MunicipioCodigo"] = PyInt(9)

----------------------------------------------------------------------------
(* C8 *)

Numero(x) == x.k \in {"fin", "inf", "nan"}

\* a row whose coordinates are both numbers, the latitude outside [-90, 90]
\* or the longitude outside [-180, 180]
ForaDeFaixa(row) ==
    /\ Numero(FloatDe(row["Latitude"]))
    /\ Numero(FloatDe(row["Longitude"]))
    /\ \/ (FloatDe(row["Latitude"]).k # "nan" /\ ~Entre(FloatDe(row["Latitude"]), 90))
       \/ (FloatDe(row["Longitude"]).k # "nan" /\ ~Entre(FloatDe(row["Longitude"]), 180))

\* a selected row of any coordinate text with one coordinate out of range
ForaDeFaixaQualquer(row) ==
    \/ (FloatDe(row["Latitude"]).k \in {"fin", "inf"} /\ ~Entre(FloatDe(row["Latitude"]), 90))
    \/ (FloatDe(row["Longitude"]).k \in {"fin", "inf"} /\ ~Entre(FloatDe(row["Longitude"]), 180))

\* the message carries the station's name as an interpolated value
Nomeia(erro, row) == \E k \in DOMAIN erro.texto : erro.texto[k] = Val(StrDe(row["Nome"]))

----------------------------------------------------------------------------
(* C9 *)

\* what the flag of a source value is to be: 1, 0 or null by its trimmed
\* upper-cased text
FlagEsperada(v) ==
    IF Upper(Strip(StrDe(v))) \in {<<"S", "I", "M">>, <<"S">>, <<"T", "R", "U", "E">>, <<"1">>,
                                   <<"Y", "E", "S">>}
    THEN PyInt(1)
    ELSE IF Upper(Strip(StrDe(v))) \in {<<"N", "Ã", "O">>, <<"N", "A", "O">>, <<"N">>,
                                        <<"F", "A", "L", "S", "E">>, <<"0">>, <<"N", "O">>}
    THEN PyInt(0)
    ELSE PyNone

FlagsDeOrigem == {CamposBooleanos[i][1] : i \in DOMAIN CamposBooleanos}

SemFlags(row) == [k \in DOMAIN row \ FlagsDeOrigem |-> row[k]]

FlagsNormalizadas(row, registro) ==
    \A i \in DOMAIN CamposBooleanos :
        CamposBooleanos[i][1] \in DOMAIN row =>
            registro[CamposBooleanos[i][2]] = FlagEsperada(row[CamposBooleanos[i][1]])

\* the step on a row fails exactly when the step on the row without its flag
\* columns fails, and with the same error
FlagsNaoFalham(consultaOk) ==
    ProcessarLinha(consultaOk) =>
        /\ retorno'.tipo = "erro" <=>
              ProcessarUmaLinha(SemFlags(selecionadas[idx]), banco, codigos_gerados, shapes,
                                next_registro_id, consultaOk).erro.classe # "ok"
        /\ retorno'.tipo = "erro" =>
              retorno'.erro = ProcessarUmaLinha(SemFlags(selecionadas[idx]), banco,
                                  codigos_gerados, shapes, next_registro_id, consultaOk).erro

\* C9: for every flag column present in a source row, the destination field
\* of the returned record is 1, 0 or null as the trimmed upper-cased text of
\* the value is truthy, falsy or anything else (a null value included), and
\* no value of a flag column makes the import fail.
C9_Total ==
    /\ [](retorno.tipo = "registros" =>
             \A i \in DOMAIN retorno.registros :
                 FlagsNormalizadas(selecionadas[i], retorno.registros[i]))
    /\ [][\A consultaOk \in BOOLEAN : FlagsNaoFalham(consultaOk)]_vars

\* a returned record whose Operando was " Sim " and whose Escala was "?"
C9_Witness ==
    /\ retorno.tipo = "registros"
    /\ Len(retorno.registros) = 1
    /\ "Operando" \in DOMAIN selecionadas[1]
    /\ selecionadas[1]["Operando"] = PyStr(<<" ", "S", "i", "m", " ">>)
    /\ selecionadas[1]["Escala"] = PyStr(<<"?">>)
    /\ retorno.registros[1]["Operando"] = PyInt(1)
    /\ retorno.registros[1]["TipoEstacaoEscala"] = PyNone

----------------------------------------------------------------------------
(* C10 *)

\* a value that is present (not null, not the empty text) and whose text
\* does not read as a finite number
NaoFinito(v) ==
    /\ v # PyNone
    /\ v # PyStr(<<>>)
    /\ FloatDeTexto(StrDe(v)).k # "fin"

\* C10: for each numeric-code field, a value that is not a finite number
\* when the coercion reads it is null in the returned record, and the run
\* does not abort in the coercion.
C10_DegradaParaNulo ==
    enriquecido.linha > 0 =>
        /\ ~(retorno.tipo = "erro" /\ pc = "retornado" /\ enriquecido.linha = idx)
        /\ enriquecido.linha <= Len(results) =>
              \A i \in DOMAIN CamposNumericos :
                  (/\ CamposNumericos[i] \in DOMAIN enriquecido.registro
                   /\ NaoFinito(enriquecido.registro[CamposNumericos[i]]))
                  => results[enriquecido.linha][CamposNumericos[i]] = PyNone

----------------------------------------------------------------------------
(* C11 *)

\* how many of the first i selected rows carry no RegistroID
SemRegistroAte(i) ==
    Cardinality({j \in 1..i : Get(selecionadas[j], "RegistroID") = PyNone})

\* C11: in the record sequence an import run returns, the registry
\* identifiers are pairwise distinct, and the rows that carry none receive
\* max_persisted + 1, max_persisted + 2, ... in source order.
C11_RegistrosDistintos ==
    retorno.tipo = "registros" =>
        /\ \A i \in DOMAIN retorno.registros :
              Get(selecionadas[i], "RegistroID") = PyNone =>
                  retorno.registros[i]["RegistroID"] =
                      PyInt(MaxRegistroID(banco) + SemRegistroAte(i))
        /\ \A i, j \in DOMAIN retorno.registros :
              i # j => retorno.registros[i]["RegistroID"] # retorno.registros[j]["RegistroID"]

----------------------------------------------------------------------------
(* C12 *)

\* the rows the export has written so far, committed or not
Escritas == destino.linhas \o destino.pendentes

\* C12: every row the export writes, to either destination, goes under
\* exactly the canonical columns in the canonical order: one value per
\* canonical column, null where the record lacks the field, and nothing for a
\* field of the record outside the canonical list.
C12_ColunasCanonicas ==
    \A n \in DOMAIN Escritas :
        /\ destino.colunas = ordem_colunas
        /\ DOMAIN Escritas[n].valores = DOMAIN ordem_colunas
        /\ \A k \in DOMAIN ordem_colunas :
              ordem_colunas[k] \notin DOMAIN dados[Escritas[n].origem] =>
                  Escritas[n].valores[k] = PyNone

\* a committed .mdb export of record A, which has the fields Escala and
\* Operando outside the canonical list and lacks most canonical ones, and of
\* record B, which lacks RegistroID
C12_Witness ==
    /\ retorno.tipo = "exportado"
    /\ destino.formato = "mdb"
    /\ dados = <<RegistroA, RegistroB>>
    /\ Len(destino.linhas) = 2
    /\ destino.linhas[1].valores[PosicaoDe("RegistroID")] = PyInt(1)
    /\ destino.linhas[2].valores[PosicaoDe("RegistroID")] = PyNone

----------------------------------------------------------------------------
(* C13 *)

\* the written rows come from distinct records, in the records' order
EmOrdem(linhas) ==
    \A m, n \in DOMAIN linhas : m < n => linhas[m].origem < linhas[n].origem

\* C13 as stated: a structured-file export that has attempted the insert of
\* each of its n records, k of them failing, has committed once, holds
\* exactly the n - k inserted rows and returns success.
C13_SempreSucesso ==
    (pc = "retornado" /\ destino.formato = "mdb" /\ df # <<>> /\ pos > Len(df)) =>
        /\ retorno.tipo = "exportado"
        /\ destino.commits = 1
        /\ Len(destino.linhas) = Len(dados) - Len(log)

\* C13 amended: while the rows are inserted nothing is committed, every
\* record before the loop's position was attempted (inserted or logged) and
\* a failed insert ends nothing; after the n attempts there is one commit,
\* and when it succeeds the file holds exactly the n - k inserted rows in
\* order and the export returns success; the only failure after the first
\* attempt is that of the commit, and it leaves no row.
C13_MelhorEsforco ==
    /\ pc = "inserindo" =>
          /\ destino.commits = 0
          /\ destino.linhas = <<>>
          /\ Len(destino.pendentes) + Len(log) = pos - 1
          /\ EmOrdem(destino.pendentes)
    /\ (retorno.tipo = "exportado" /\ destino.formato = "mdb") =>
          /\ pos = Len(dados) + 1
          /\ destino.commits = 1
          /\ destino.pendentes = <<>>
          /\ Len(destino.linhas) = Len(dados) - Len(log)
          /\ EmOrdem(destino.linhas)
    /\ (retorno.tipo = "erro" /\ destino.formato = "mdb" /\ pos > 1) =>
          /\ pos = Len(dados) + 1
          /\ destino.commits = 0
          /\ destino.linhas = <<>>

\* two records, the insert of the first failed, the second is persisted by
\* the one commit
C13_Witness ==
    /\ retorno.tipo = "exportado"
    /\ destino.formato = "mdb"
    /\ destino.tabela
    /\ Len(dados) = 2
    /\ log = <<<<"A">>>>
    /\ Len(destino.linhas) = 1
    /\ destino.linhas[1].origem = 2
    /\ destino.commits = 1

----------------------------------------------------------------------------
(* C14 *)

\* C14: a structured-file export whose template is missing or lacks the
\* table Estacao fails before any insert is attempted; it never completes
\* with success.
C14_FalhaAntesDeInserir ==
    /\ retorno.erro.classe = "FileNotFoundError" =>
          (retorno.tipo = "erro" /\ pos = 1 /\ destino = SemDestino)
    /\ (destino.formato = "mdb" /\ ~destino.tabela) =>
          /\ pc # "inserindo"
          /\ pos = 1
          /\ retorno.tipo = "erro"

----------------------------------------------------------------------------
(* C15 *)

Obrigatorias == {"Nome", "Latitude", "Longitude"}

\* the call fails before its row loop only as it would on the same table
\* with the column Codigo added, under some state of its surroundings
FalhaAlheiaAsColunas ==
    \E carga \in Insumos \cup {SemCamadas}, consultaOk \in BOOLEAN :
        retorno'.erro =
            Abrir(Arquivo(TRUE, {"Estacoes_Novas"}, colunas_existentes' \cup {"Codigo"}, <<>>),
                  carga, consultaOk)

ErroDeEsquema(erro) ==
    \E k \in DOMAIN erro.texto :
        erro.texto[k] =
            Lit("As seguintes colunas obrigatórias estão faltando na tabela 'Estacoes_Novas': ")

\* C15: an import of a table that has Nome, Latitude and Longitude does not
\* fail for an optional column it lacks, Codigo included; the schema error
\* is raised exactly when a required column is missing, and it lists the
\* missing columns.
C15_OpcionaisDispensaveis ==
    [][(pc = "ocioso" /\ pc' # "ocioso" /\ colunas_existentes' # {}) =>
          /\ Obrigatorias \subseteq colunas_existentes' =>
                (pc' = "linhas" \/ FalhaAlheiaAsColunas)
          /\ ErroDeEsquema(retorno'.erro) <=> ~(Obrigatorias \subseteq colunas_existentes')
          /\ \A c \in Obrigatorias \ colunas_existentes' :
                \E k \in DOMAIN retorno'.erro.texto : retorno'.erro.texto[k] = Lit(c)]_vars

----------------------------------------------------------------------------
(* C16 *)

\* the codes of active rainfall stations persisted with the prefix read as P
PersistidosDoPrefixo(P) ==
    {e.Codigo : e \in {x \in banco : Ativa(x) /\ x.Codigo \div 1000 = P}}

\* C16: the persisted codes a call consults are exactly the active rainfall
\* codes of its own prefix, and the sequence it returns is 1 when those and
\* the session cache of the prefix are empty, else the largest sequence among
\* them plus 1.
C16_ConsultaExata ==
    [][\A c \in Coordenadas :
          (/\ Gerar(c[1], c[2], TRUE)
           /\ validar_coordenadas(c[1], c[2]).classe = "ok")
          => /\ ConsultaIntervalo(banco, CodigoInicio(c[1], c[2]), CodigoFim(c[1], c[2]))
                   = PersistidosDoPrefixo(IntDe(PrefixoInicio(c[1], c[2])))
             /\ retorno'.tipo = "codigo" =>
                   SequencialDe(retorno'.codigo) = MaxAlocado(PrefixoInicio(c[1], c[2])) + 1]_vars

----------------------------------------------------------------------------
(* C17 *)

\* C17: every code the session cache holds under a prefix was returned by a
\* successful generation for that prefix in this session, and its sequence
\* lies in 1..999.
C17_CacheDaSessao ==
    \A p \in DOMAIN codigos_gerados :
        \A i \in DOMAIN codigos_gerados[p] :
            /\ (codigos_gerados[p][i] % 1000) \in 1..LimiteSequencial
            /\ \E j \in DOMAIN emitidos :
                  /\ PrefixoDe(emitidos[j]) = p
                  /\ IntDe(emitidos[j]) = codigos_gerados[p][i]

\* the store held 02043998: the last sequence of quadrant 02043 was returned
\* and cached
C17_Witness ==
    /\ <<"0", "2", "0", "4", "3">> \in DOMAIN codigos_gerados
    /\ codigos_gerados[<<"0", "2", "0", "4", "3">>] = <<2043999>>
    /\ Len(emitidos) = 1

----------------------------------------------------------------------------
(* C18 *)

\* what an import returns when reading the shapefiles fails (line 319)
ErroDeCarga ==
    ErroMdb(<<Lit("Erro ao carregar shapefiles: "), Lit("DriverError")>>)

\* C18: once the manager holds the polygon layers no step changes them; an
\* import reaches its row loop only with the layers loaded; an import that
\* fails to load them returns the load error and leaves the manager without
\* layers.
C18_CarregaUmaVez ==
    [][/\ shapes.carregado => shapes' = shapes
       /\ (pc = "ocioso" /\ pc' = "linhas") => shapes'.carregado
       /\ (pc = "ocioso" /\ retorno'.tipo = "erro" /\ retorno'.erro = ErroDeCarga)
             => /\ ~shapes.carregado
                /\ shapes' = shapes
                /\ pc' = "retornado"]_vars

\* a later run on the same manager, past its first row, working on the
\* layers loaded by an earlier run
C18_Witness ==
    /\ pc = "linhas"
    /\ idx > 1
    /\ descartados > 0
    /\ shapes.carregado
    /\ shapes.subbacia = CamadaSemAtributos

----------------------------------------------------------------------------
(* C19 *)

\* C19: a returned code is not the code of an active rainfall station of
\* the backing store.
C19_NaoPersistido ==
    retorno.tipo = "codigo" =>
        IntDe(retorno.codigo) \notin {e.Codigo : e \in {x \in banco : Ativa(x)}}

----------------------------------------------------------------------------
(* C20 *)

\* the same 1-degree cell: the same hemisphere and whole degree of latitude,
\* the same signed whole degree of longitude
MesmaCelula(lat1, lon1, lat2, lon2) ==
    /\ Negativo(lat1) = Negativo(lat2)
    /\ lat1.w = lat2.w
    /\ Negativo(lon1) = Negativo(lon2)
    /\ lon1.w = lon2.w

\* C20: two calls that return codes of the same prefix were made for
\* coordinates of the same 1-degree cell.
C20_UmaCelula ==
    [][(/\ retorno.tipo = "codigo"
        /\ retorno'.tipo = "codigo"
        /\ PrefixoDe(retorno.codigo) = PrefixoDe(retorno'.codigo))
       => MesmaCelula(retorno.latitude, retorno.longitude,
                      retorno'.latitude, retorno'.longitude)]_vars

====
